---- MODULE Spec2Model ----
(***************************************************************************)
(* The real-time voice session engine of gemini-live-ai-studio:            *)
(* hooks/useLiveGemini.ts (the hook: connect, disconnect, sendTextTurn and *)
(* the four transport callbacks), the PCM helpers it imports and the way   *)
(* App.tsx wires onUserFinalText to sendTextTurn.                          *)
(*                                                                         *)
(* Every synchronous stretch of a handler is one action; every `await` of  *)
(* the source ends an action and leaves a continuation in `tasks`.  The    *)
(* browser objects the hook holds (audio contexts, the websocket of a      *)
(* session, the promise ai.live.connect returns, buffer sources) are       *)
(* modelled by their observable state.                                     *)
(***************************************************************************)
EXTENDS Integers, Sequences, FiniteSets, TLC

\* ---------------------------------------------------------------- bounds
MaxConnects == 2      \* connect() calls that pass the credential guard (Spec)
MaxLifeMsgs == 1      \* inbound messages over a behaviour of Spec
MaxAudioMsgs == 2     \* inbound messages over a behaviour of SpecPlayback
MaxMsgs     == 3      \* inbound messages over a behaviour of SpecTranscript
MaxToolMsgs == 2      \* inbound messages over a behaviour of SpecTools
MaxMixedMsgs == 2     \* inbound messages (SpecMixed)
MaxCarryMsgs == 3     \* inbound messages (SpecCarry)
MaxFailMsgs == 3      \* inbound messages (SpecFail)
MaxBusyMsgs == 2      \* inbound messages over a behaviour of SpecBusy
MaxTime     == 2      \* ticks of an output context's clock
GridBits    == 3      \* float samples are the multiples of 2^-GridBits (SpecCodec)
Over        == 2      \* grid points beyond -1 and beyond 1 (SpecCodec)
MaxFrame    == 2      \* samples in a frame (SpecCodec, SpecDecode)
Near        == 2      \* 16-bit samples taken next to -32768, 0 and 32767 (SpecDecode)

\* ------------------------------------------------------------- constants
NULL == 0                         \* a ref holding null
NoError == "null"                 \* error state holding null

DISCONNECTED == "DISCONNECTED"
CONNECTING   == "CONNECTING"
CONNECTED    == "CONNECTED"
ERROR        == "ERROR"
ConnectionState == {DISCONNECTED, CONNECTING, CONNECTED, ERROR}

Ids == 1..MaxConnects             \* the n-th connect(): its stream, contexts, session

\* ------------------------------------------------------------- variables
VARIABLES
    apiKey,                          \* prop: "" when the credential is missing
    mounted,                         \* the hook's component is mounted
    connectionState, error,          \* useState
    inputAudioContextRef, outputAudioContextRef,
    inputSourceRef, processorRef,
    nextStartTimeRef, audioSourcesRef,
    sessionPromiseRef, sessionRef,
    currentInputTranscriptionRef, currentOutputTranscriptionRef,
    \* ---- objects the hook creates or is handed
    media,        \* Ids -> "none" | "pending" | "live" | "denied"  (getUserMedia of connect n)
    inCtx,        \* Ids -> "none" | "running" | "closed"           (input AudioContext n)
    outCtx,       \* Ids -> "none" | "running" | "closed"           (output AudioContext n)
    clock,        \* Ids -> currentTime of output AudioContext n
    capture,      \* set of [ctx, sess]: script processors attached by onopen
    ws,           \* Ids -> "none" | "connecting" | "open" | "closed" (websocket of session n)
    promise,      \* Ids -> "none" | "pending" | "resolved" | "rejected" (sessionPromise n)
    sources,      \* the buffer sources created so far; one that was stopped or has
                  \* ended is kept as its state alone
    tasks,        \* sequence of suspended async continuations
    \* ---- what the engine has emitted
    transcripts,  \* onTranscription calls, in order: [sender, text, turn]
    sent,         \* messages handed to a session
    nMsgs,        \* inbound messages so far
    shown,        \* onSources calls, in order: the sources handed to the UI
    heard,        \* the user transcription deltas the handler has been handed, in
                  \* order, since it last emitted a user entry
    frame,        \* the audio frame in the PCM codec: [stage, float32, int16, back]
    carried,      \* what the two transcript buffers held and how many entries had been
                  \* emitted when connect() last created a session, and whether an
                  \* interruption has been handled since: [user, model, len, flushed]
    owed,         \* the model text that a failed user-final side effect left in the
                  \* buffer and no entry has taken up yet, and whether an interruption
                  \* has been handled since: [text, flushed]
    chain,        \* end time of the chunk scheduled last since the cursor was last
                  \* reset by a flush, a teardown or connect (0: no such chunk)
    last          \* the handler step taken last

refVars   == <<inputAudioContextRef, outputAudioContextRef, inputSourceRef, processorRef,
               nextStartTimeRef, audioSourcesRef, sessionPromiseRef, sessionRef,
               currentInputTranscriptionRef, currentOutputTranscriptionRef>>
stateVars == <<connectionState, error>>
envVars   == <<media, inCtx, outCtx, clock, capture, ws, promise, sources, tasks>>
outVars   == <<transcripts, sent, nMsgs, shown, heard>>
vars      == <<apiKey, mounted, stateVars, refVars, envVars, outVars, frame, carried, owed,
               chain, last>>

\* --------------------------------------------------------------- helpers
Max(a, b) == IF a >= b THEN a ELSE b

RemoveAt(s, i) == [j \in 1..(Len(s) - 1) |-> IF j < i THEN s[j] ELSE s[j + 1]]

nConnects == Cardinality({n \in Ids : media[n] # "none"})

\* ------------------------------------------------------------------ Init
Constructed ==
    /\ apiKey \in {"", "key"}
    /\ mounted = TRUE
    /\ connectionState = DISCONNECTED
    /\ error = NoError
    /\ inputAudioContextRef = NULL
    /\ outputAudioContextRef = NULL
    /\ inputSourceRef = NULL
    /\ processorRef = NULL
    /\ nextStartTimeRef = 0
    /\ audioSourcesRef = {}
    /\ sessionPromiseRef = NULL
    /\ sessionRef = NULL
    /\ currentInputTranscriptionRef = <<>>
    /\ currentOutputTranscriptionRef = <<>>
    /\ media = [n \in Ids |-> "none"]
    /\ inCtx = [n \in Ids |-> "none"]
    /\ outCtx = [n \in Ids |-> "none"]
    /\ clock = [n \in Ids |-> 0]
    /\ capture = {}
    /\ ws = [n \in Ids |-> "none"]
    /\ promise = [n \in Ids |-> "none"]
    /\ sources = <<>>
    /\ tasks = <<>>
    /\ transcripts = <<>>
    /\ sent = {}
    /\ nMsgs = 0
    /\ shown = <<>>
    /\ heard = <<>>
    /\ carried = [user |-> <<>>, model |-> <<>>, len |-> 0, flushed |-> FALSE]
    /\ owed = [text |-> <<>>, flushed |-> FALSE]
    /\ chain = 0
    /\ last = [op |-> "init"]

NoFrame == [stage |-> "none", float32 |-> <<>>, int16 |-> <<>>, back |-> <<>>,
            buffer |-> <<>>]

Init == Constructed /\ frame = NoFrame

\* ============================================================ the engine
\* src/hooks/useLiveGemini.ts:50  forEach(source => source.stop()) over the active set
StopAll(srcs, active) ==
    [i \in DOMAIN srcs |-> IF i \in active /\ srcs[i].state = "scheduled"
                             THEN [state |-> "stopped"]
                             ELSE srcs[i]]

\* src/hooks/useLiveGemini.ts:47-48  context.close() and the ref set to null
Closed(ctxs, ref) == IF ref # NULL THEN [ctxs EXCEPT ![ref] = "closed"] ELSE ctxs

\* a teardown that reports the loss of the session as an error state
TeardownToError == ERROR

\* src/hooks/useLiveGemini.ts:53  the state teardown leaves
TeardownState == DISCONNECTED

\* a teardown that forgets to drop the handle
KeptHandle(ref) == ref

\* src/hooks/useLiveGemini.ts:55-56  the session handle teardown leaves
DroppedHandle(ref) == NULL

\* src/hooks/useLiveGemini.ts:45-57  disconnect(): the one teardown routine
\* a teardown that empties a transcript buffer
DroppedText(text) == <<>>

\* src/hooks/useLiveGemini.ts:45-57  a transcript buffer over disconnect(): no line of it
\* touches the two transcription refs
KeptText(text) == text

disconnect ==
    /\ inCtx' = Closed(inCtx, inputAudioContextRef)
    /\ inputAudioContextRef' = NULL
    /\ outCtx' = Closed(outCtx, outputAudioContextRef)
    /\ outputAudioContextRef' = NULL
    /\ sources' = StopAll(sources, audioSourcesRef)
    /\ audioSourcesRef' = {}
    /\ connectionState' = TeardownState
    /\ nextStartTimeRef' = 0
    /\ sessionPromiseRef' = DroppedHandle(sessionPromiseRef)
    /\ sessionRef' = DroppedHandle(sessionRef)
    /\ chain' = 0
    /\ currentInputTranscriptionRef' = KeptText(currentInputTranscriptionRef)
    /\ currentOutputTranscriptionRef' = KeptText(currentOutputTranscriptionRef)
    /\ UNCHANGED <<inputSourceRef, processorRef>>

\* the steps that run disconnect()
TeardownOps == {"disconnect", "unmount", "onclose", "onerror"}

\* what a teardown step did, for `last`: the path, and whether the step before it was a
\* teardown too
Teardown(op) == [op |-> op, again |-> last.op \in TeardownOps]

\* the UI's disconnect intent (App.tsx:64), or any other caller of the hook's disconnect
Disconnect ==
    /\ mounted
    /\ disconnect
    /\ last' = Teardown("disconnect")
    /\ UNCHANGED <<apiKey, frame, carried, owed, mounted, error, media, clock, capture, ws, promise, tasks, outVars>>

\* src/hooks/useLiveGemini.ts:308-313  the effect cleanup, run when the component unmounts
Unmount ==
    /\ mounted
    /\ mounted' = FALSE
    /\ disconnect
    /\ last' = Teardown("unmount")
    /\ UNCHANGED <<apiKey, frame, carried, owed, error, media, clock, capture, ws, promise, tasks, outVars>>

\* src/hooks/useLiveGemini.ts:257-264  onclose of session n
onclose(n) ==
    /\ ws[n] \in {"connecting", "open"}
    /\ ws' = [ws EXCEPT ![n] = "closed"]
    /\ disconnect
    /\ last' = Teardown("onclose")
    /\ UNCHANGED <<apiKey, frame, carried, owed, mounted, error, media, clock, capture, promise, tasks, outVars>>

\* src/hooks/useLiveGemini.ts:265-269  onerror of session n (the socket's close event,
\* if any, follows as onclose)
onerror(n) ==
    /\ ws[n] \in {"connecting", "open"}
    /\ error' = "Connection Error"
    /\ disconnect
    /\ last' = Teardown("onerror")
    /\ UNCHANGED <<apiKey, frame, carried, owed, mounted, media, clock, capture, ws, promise, tasks, outVars>>

\* a connect() without the credential guard
KeyUnchecked(key) == FALSE

\* src/hooks/useLiveGemini.ts:87  the credential guard
MissingKey(key) == key = ""

\* src/hooks/useLiveGemini.ts:85-93  connect(), up to `await getUserMedia`
connect(maxN) ==
    /\ mounted
    /\ IF MissingKey(apiKey)
         THEN /\ error' = "API Key is missing"
              /\ last' = [op |-> "connect", guard |-> "missing key"]
              /\ UNCHANGED <<connectionState, media>>
         ELSE /\ nConnects < maxN
              /\ connectionState' = CONNECTING
              /\ error' = NoError
              /\ media' = [media EXCEPT ![nConnects + 1] = "pending"]
              /\ last' = [op |-> "connect", guard |-> "passed"]
    /\ UNCHANGED <<chain, apiKey, frame, carried, owed, mounted, refVars, inCtx, outCtx, clock, capture, ws, promise,
                   sources, tasks, outVars>>

\* src/hooks/useLiveGemini.ts:301-305  the catch of connect()
connectCatch ==
    /\ error' = "Failed to connect"
    /\ connectionState' = ERROR

\* src/hooks/useLiveGemini.ts:93, 301-305  getUserMedia of connect n rejects
getUserMediaRejected(n) ==
    /\ media[n] = "pending"
    /\ media' = [media EXCEPT ![n] = "denied"]
    /\ connectCatch
    /\ last' = [op |-> "connect failed", id |-> n, at |-> "getUserMedia"]
    /\ UNCHANGED <<chain, apiKey, frame, carried, owed, mounted, refVars, inCtx, outCtx, clock, capture, ws, promise,
                   sources, tasks, outVars>>

\* src/hooks/useLiveGemini.ts:95-98, 301-305  the input AudioContext cannot be created
inputContextThrows(n) ==
    /\ media[n] = "pending"
    /\ media' = [media EXCEPT ![n] = "live"]
    /\ connectCatch
    /\ last' = [op |-> "connect failed", id |-> n, at |-> "input context"]
    /\ UNCHANGED <<chain, apiKey, frame, carried, owed, mounted, refVars, inCtx, outCtx, clock, capture, ws, promise,
                   sources, tasks, outVars>>

\* src/hooks/useLiveGemini.ts:95-101, 301-305  the output AudioContext cannot be created
outputContextThrows(n) ==
    /\ media[n] = "pending"
    /\ media' = [media EXCEPT ![n] = "live"]
    /\ inCtx' = [inCtx EXCEPT ![n] = "running"]
    /\ inputAudioContextRef' = n
    /\ connectCatch
    /\ last' = [op |-> "connect failed", id |-> n, at |-> "output context"]
    /\ UNCHANGED <<chain, apiKey, frame, carried, owed, mounted, outputAudioContextRef, inputSourceRef, processorRef,
                   nextStartTimeRef, audioSourcesRef, sessionPromiseRef, sessionRef,
                   currentInputTranscriptionRef, currentOutputTranscriptionRef,
                   outCtx, clock, capture, ws, promise, sources, tasks, outVars>>

\* src/hooks/useLiveGemini.ts:93-107, 299  connect() after getUserMedia resolved: both
\* contexts, the cursor, ai.live.connect and the promise ref
connectResumed(n) ==
    /\ media[n] = "pending"
    /\ media' = [media EXCEPT ![n] = "live"]
    /\ inCtx' = [inCtx EXCEPT ![n] = "running"]
    /\ inputAudioContextRef' = n
    /\ outCtx' = [outCtx EXCEPT ![n] = "running"]
    /\ outputAudioContextRef' = n
    /\ nextStartTimeRef' = clock[n]
    /\ chain' = 0
    /\ ws' = [ws EXCEPT ![n] = "connecting"]
    /\ promise' = [promise EXCEPT ![n] = "pending"]
    /\ sessionPromiseRef' = n
    /\ carried' = [user |-> currentInputTranscriptionRef,
                   model |-> currentOutputTranscriptionRef,
                   len |-> Len(transcripts), flushed |-> FALSE]
    /\ last' = [op |-> "connect resumed", id |-> n]
    /\ UNCHANGED <<apiKey, frame, owed, mounted, stateVars, inputSourceRef, processorRef, audioSourcesRef,
                   sessionRef, currentInputTranscriptionRef, currentOutputTranscriptionRef,
                   clock, capture, sources, tasks, outVars>>

\* src/hooks/useLiveGemini.ts:110-140  onopen of session n
onopen(n) ==
    /\ ws[n] = "connecting"
    /\ ws' = [ws EXCEPT ![n] = "open"]
    /\ connectionState' = CONNECTED
    /\ IF inputAudioContextRef = NULL
         THEN UNCHANGED <<inputSourceRef, processorRef, capture>>
         ELSE /\ inputSourceRef' = n
              /\ processorRef' = n
              /\ capture' = capture \cup {[ctx |-> inputAudioContextRef, sess |-> n]}
    /\ last' = [op |-> "onopen", id |-> n]
    /\ UNCHANGED <<chain, apiKey, frame, carried, owed, mounted, error, inputAudioContextRef, outputAudioContextRef,
                   nextStartTimeRef, audioSourcesRef, sessionPromiseRef, sessionRef,
                   currentInputTranscriptionRef, currentOutputTranscriptionRef,
                   media, inCtx, outCtx, clock, promise, sources, tasks, outVars>>

\* src/hooks/useLiveGemini.ts:134  session.sendRealtimeInput({media: pcmBlob})
RealtimeInput(s) == [kind |-> "realtimeInput", sess |-> s]

\* a frame whose `sessionPromise.then` callback has not run yet
FrameTask(s) == [kind |-> "frame", sess |-> s]

\* src/hooks/useLiveGemini.ts:133-135  the then() callbacks of the frames captured
\* while the promise of session n was pending run when it resolves
FramesOf(ts, n) == {i \in DOMAIN ts : ts[i] = FrameTask(n)}

WithoutFrames(ts, n) == SelectSeq(ts, LAMBDA t : t # FrameTask(n))

\* src/hooks/useLiveGemini.ts:107, 114  the promise of ai.live.connect resolves (the SDK
\* resolves it once the socket has opened); the then() registered by onopen stores the
\* session
sessionResolved(n) ==
    /\ promise[n] = "pending"
    /\ ws[n] = "open"
    /\ promise' = [promise EXCEPT ![n] = "resolved"]
    /\ sessionRef' = n
    /\ sent' = IF FramesOf(tasks, n) # {} THEN sent \cup {RealtimeInput(n)} ELSE sent
    /\ tasks' = WithoutFrames(tasks, n)
    /\ last' = [op |-> "session resolved", id |-> n, frames |-> FramesOf(tasks, n) # {}]
    /\ UNCHANGED <<chain, apiKey, frame, carried, owed, mounted, stateVars, inputAudioContextRef, outputAudioContextRef,
                   inputSourceRef, processorRef, nextStartTimeRef, audioSourcesRef,
                   sessionPromiseRef, currentInputTranscriptionRef,
                   currentOutputTranscriptionRef,
                   media, inCtx, outCtx, clock, capture, ws, sources,
                   transcripts, nMsgs, shown, heard>>

\* src/hooks/useLiveGemini.ts:107, 299  the promise of ai.live.connect rejects before the
\* socket opens; nothing awaits it in connect(), so no handler of the hook runs
sessionRejected(n) ==
    /\ promise[n] = "pending"
    /\ ws[n] = "connecting"
    /\ promise' = [promise EXCEPT ![n] = "rejected"]
    /\ ws' = [ws EXCEPT ![n] = "closed"]
    /\ last' = [op |-> "session rejected", id |-> n]
    /\ UNCHANGED <<chain, apiKey, frame, carried, owed, mounted, stateVars, refVars, media, inCtx, outCtx, clock, capture,
                   sources, tasks, outVars>>

\* src/hooks/useLiveGemini.ts:62-65  s.sendClientContent({turns: [user text], turnComplete})
ClientContent(s, text, origin) ==
    [kind |-> "clientContent", sess |-> s, text |-> text, origin |-> origin]

\* src/hooks/useLiveGemini.ts:59-66  sendTextTurn(text) called by the UI
sendTextTurn(text) ==
    /\ mounted
    /\ \A i \in DOMAIN tasks : tasks[i].kind # "sendTextTurn"
    /\ IF sessionRef # NULL
         THEN /\ sent' = sent \cup {ClientContent(sessionRef, text, "ui")}
              /\ last' = [op |-> "sendTextTurn", result |-> "sent", callState |-> connectionState]
              /\ UNCHANGED tasks
         ELSE IF sessionPromiseRef = NULL
         THEN /\ last' = [op |-> "sendTextTurn", result |-> "No live session",
                        callState |-> connectionState]
              /\ UNCHANGED <<sent, tasks>>
         ELSE /\ tasks' = Append(tasks, [kind |-> "sendTextTurn", p |-> sessionPromiseRef,
                                         text |-> text, callState |-> connectionState])
              /\ last' = [op |-> "sendTextTurn", result |-> "awaiting session",
                        callState |-> connectionState]
              /\ UNCHANGED sent
    /\ UNCHANGED <<chain, apiKey, frame, carried, owed, mounted, stateVars, refVars, media, inCtx, outCtx, clock, capture,
                   ws, promise, sources, transcripts, nMsgs, shown, heard>>

\* src/hooks/useLiveGemini.ts:60-65  sendTextTurn after `await sessionPromiseRef.current`
sendTextTurnResumed(i) ==
    /\ i \in DOMAIN tasks
    /\ tasks[i].kind = "sendTextTurn"
    /\ promise[tasks[i].p] # "pending"
    /\ tasks' = RemoveAt(tasks, i)
    /\ IF promise[tasks[i].p] = "resolved"
         THEN /\ sent' = sent \cup {ClientContent(tasks[i].p, tasks[i].text, "ui")}
              /\ last' = [op |-> "sendTextTurn resumed", result |-> "sent",
                        callState |-> tasks[i].callState]
         ELSE /\ last' = [op |-> "sendTextTurn resumed", result |-> "rejected",
                        callState |-> tasks[i].callState]
              /\ UNCHANGED sent
    /\ UNCHANGED <<chain, apiKey, frame, carried, owed, mounted, stateVars, refVars, media, inCtx, outCtx, clock, capture,
                   ws, promise, sources, transcripts, nMsgs, shown, heard>>

\* a handler that keeps the thread to itself while its retrieval is pending
BusyWhileFetching(ts) ==
    \A i \in DOMAIN ts : ~(ts[i].kind = "onmessage" /\ ts[i].pc = "fetch")

\* src/hooks/useLiveGemini.ts:162  `await retrieveContextTool(...)` suspends the handler:
\* with the suspended handlers ts the thread is free for every other callback
EventLoopFree(ts) == TRUE

\* the script processors onopen can attach: an input context and a session
Processors == [ctx : Ids, sess : Ids]

\* what a capture step did, for `last`
FrameStep(op, s, outcome) == [op |-> op, sess |-> s, outcome |-> outcome]

\* src/hooks/useLiveGemini.ts:125-136  onaudioprocess of the script processor c that
\* onopen of session c.sess attached to the input context c.ctx (a closed context
\* fires no event): the volume callback, createPcmBlob, and the frame handed to the
\* session by `sessionPromise.then` (at once when the promise has resolved, when it
\* resolves if it is pending, never when it has rejected).  What the frame holds is
\* left out.
onaudioprocess(c) ==
    /\ c \in capture
    /\ inCtx[c.ctx] = "running"
    /\ EventLoopFree(tasks)
    /\ IF promise[c.sess] = "resolved"
         THEN /\ sent' = sent \cup {RealtimeInput(c.sess)}
              /\ last' = FrameStep("onaudioprocess", c.sess, "sent")
              /\ UNCHANGED tasks
         ELSE IF promise[c.sess] = "pending"
         THEN /\ \A i \in DOMAIN tasks : tasks[i] # FrameTask(c.sess)
              /\ tasks' = Append(tasks, FrameTask(c.sess))
              /\ last' = FrameStep("onaudioprocess", c.sess, "awaits session")
              /\ UNCHANGED sent
         ELSE /\ last' = FrameStep("onaudioprocess", c.sess, "dropped")
              /\ UNCHANGED <<sent, tasks>>
    /\ UNCHANGED <<chain, apiKey, frame, carried, owed, mounted, stateVars, refVars, media, inCtx, outCtx, clock,
                   capture, ws, promise, sources, transcripts, nMsgs, shown, heard>>

\* the clock of a running output context advances
Tick(n) ==
    /\ outCtx[n] = "running"
    /\ clock[n] < MaxTime
    /\ clock' = [clock EXCEPT ![n] = @ + 1]
    /\ last' = [op |-> "tick", id |-> n]
    /\ UNCHANGED <<chain, apiKey, frame, carried, owed, mounted, stateVars, refVars, media, inCtx, outCtx, capture, ws,
                   promise, sources, tasks, outVars>>

\* ------------------------------------------------- inbound messages
\* A LiveServerMessage as onmessage reads it: toolCall.functionCalls, the parts of
\* serverContent.modelTurn (a part is the duration of its inline audio, NoAudio for a
\* part without inlineData.data, Malformed for data atob rejects), and the flags and
\* transcription deltas of serverContent.  Text is a sequence of characters.
NoAudio   == 0
Malformed == -1

Msg(parts, interrupted, outText, inText, turnComplete) ==
    [calls |-> <<>>, parts |-> parts, interrupted |-> interrupted,
     outputTranscription |-> outText, inputTranscription |-> inText,
     turnComplete |-> turnComplete]

\* String.prototype.trim (src/hooks/useLiveGemini.ts:228, 240): leading and trailing
\* white space removed
Trim(s) ==
    LET keep == {i \in DOMAIN s : s[i] # " "}
        lo == CHOOSE i \in keep : \A j \in keep : i <= j
        hi == CHOOSE i \in keep : \A j \in keep : i >= j
    IN  IF keep = {} THEN <<>> ELSE SubSeq(s, lo, hi)

\* src/hooks/useLiveGemini.ts:228, 240  the two buffers, trimmed, as they are when the
\* handler comes to `if (turnComplete)`; NoTurn before that
Finals(user, model) == [user |-> user, model |-> model]
NoTurn == Finals(<<>>, <<>>)

\* a suspended onmessage handler
Handler(pc, h, i, wait, fin) ==
    [kind |-> "onmessage", pc |-> pc, sid |-> h.sid, mid |-> h.mid, ctx |-> h.ctx,
     msg |-> h.msg, i |-> i, wait |-> wait, fin |-> fin]

\* what a handler step did, for `last`: tail tells that the step ran the handler's
\* lines 212-238 (interruption, deltas, the user half of turn completion), modelFinal
\* that it ran lines 240-249
HandlerOps == {"onmessage", "decoded", "userFinal resumed"}

Step(op, h, tail, modelFinal, outcome, fin) ==
    [op |-> op, msg |-> h.msg, mid |-> h.mid, ctx |-> h.ctx, tail |-> tail,
     modelFinal |-> modelFinal, outcome |-> outcome, fin |-> fin]

Entry(sender, text, turn) == [sender |-> sender, text |-> text, turn |-> turn]

\* a scheduler that starts every chunk at the device's current time
CursorNow(cursor, now) == now

\* src/hooks/useLiveGemini.ts:197  the cursor never starts a chunk in the past
CursorAt(cursor, now) == Max(cursor, now)

\* src/hooks/useLiveGemini.ts:216  the cursor after an interruption
FlushCursor(cursor, now) == now

\* src/hooks/useLiveGemini.ts:214-215  the sources and the active set after an interruption
FlushSources(srcs, active) == StopAll(srcs, active)
\* a flush that stops the sources and forgets to clear the set
KeptActive(active) == active

FlushActive(active) == {}

\* src/hooks/useLiveGemini.ts:217  the model buffer after an interruption
FlushModelText(text) == <<>>

\* an interruption that clears both buffers
ClearedUserText(text) == <<>>

\* src/hooks/useLiveGemini.ts:212-218  the user buffer after an interruption: the block
\* does not touch it
InterruptedUserText(text) == text

\* a catch that reports the failure to the UI
ReportedError(err) == "Message Error"

\* src/hooks/useLiveGemini.ts:251-254  the catch of onmessage: it logs, and leaves the
\* error message as it is
onmessageCatch(err) == err

\* src/hooks/useLiveGemini.ts:144, 251-254  the step threw into the catch of onmessage
Caught(l) == l.op # "ignored" /\ l.outcome = "threw"

\* src/hooks/useLiveGemini.ts:142-255  connectionState and error over a handler step
handlerState ==
    /\ connectionState' = connectionState
    /\ error' = IF Caught(last') THEN onmessageCatch(error) ELSE error

\* src/hooks/useLiveGemini.ts:229, 241  `if (userFinal)`, `if (modelFinal)`
Finalizes(final) == final # <<>>

\* src/hooks/useLiveGemini.ts:236, 248  the buffer after its entry was emitted
Cleared(text) == <<>>

\* the model text left behind, over the steps of the handler: an interruption
\* (line 217) discards it, a failed onUserFinalText (lines 237, 251) leaves the buffer
\* `out` behind, a model entry (lines 241-248) takes it up
NoOwed == [text |-> <<>>, flushed |-> FALSE]
AfterFlush(o, m) == IF m.interrupted THEN [o EXCEPT !.flushed = o.text # <<>>] ELSE o
Owes(o, out) == IF Trim(out) # <<>> THEN [text |-> out, flushed |-> FALSE] ELSE o
Settled(o, out) == IF Trim(out) # <<>> THEN NoOwed ELSE o

\* a catch that throws the model text away
SkippedText(text) == <<>>

\* src/hooks/useLiveGemini.ts:237-254  the model buffer when onUserFinalText throws:
\* lines 240-249 are skipped and the catch does not touch it
Unfinished(text) == text

\* src/hooks/useLiveGemini.ts:240-249  the model half of turn completion, on the model
\* buffer `out` as it is when the handler gets there
modelFinal(h, out) ==
    LET final == Trim(out)
    IN  IF Finalizes(final)
          THEN /\ transcripts' = Append(transcripts, Entry("model", final, h.mid))
               /\ currentOutputTranscriptionRef' = Cleared(out)
          ELSE /\ transcripts' = transcripts
               /\ currentOutputTranscriptionRef' = out

\* src/hooks/useLiveGemini.ts:212-250  the rest of the handler once the parts are done:
\* interruption, transcription deltas, turn completion up to `await onUserFinalText`.
\* cur, act, srcs: the cursor, the active set and the sources as the parts left them.
tail(op, h, rest, cur, act, srcs, ch) ==
    LET m    == h.msg
        now  == clock[h.ctx]
        out0 == IF m.interrupted THEN FlushModelText(currentOutputTranscriptionRef)
                                 ELSE currentOutputTranscriptionRef
        out1 == out0 \o m.outputTranscription
        in0  == IF m.interrupted THEN InterruptedUserText(currentInputTranscriptionRef)
                                 ELSE currentInputTranscriptionRef
        in1  == in0 \o m.inputTranscription
        userFinal == Trim(in1)
        fin  == Finals(userFinal, Trim(out1))
    IN  /\ nextStartTimeRef' = IF m.interrupted THEN FlushCursor(cur, now) ELSE cur
        /\ audioSourcesRef' = IF m.interrupted THEN FlushActive(act) ELSE act
        /\ sources' = IF m.interrupted THEN FlushSources(srcs, act) ELSE srcs
        /\ chain' = IF m.interrupted THEN 0 ELSE ch
        /\ carried' = [carried EXCEPT !.flushed = @ \/ m.interrupted]
        /\ UNCHANGED shown
        /\ heard' = IF m.turnComplete /\ Trim(heard \o m.inputTranscription) # <<>>
                       THEN <<>> ELSE heard \o m.inputTranscription
        /\ IF ~m.turnComplete
             THEN /\ currentInputTranscriptionRef' = in1
                  /\ currentOutputTranscriptionRef' = out1
                  /\ tasks' = rest
                  /\ last' = Step(op, h, TRUE, FALSE, "done", NoTurn)
                  /\ owed' = AfterFlush(owed, m)
                  /\ UNCHANGED <<transcripts, sent>>
             ELSE IF ~Finalizes(userFinal)
             THEN /\ currentInputTranscriptionRef' = in1
                  /\ modelFinal(h, out1)
                  /\ tasks' = rest
                  /\ last' = Step(op, h, TRUE, TRUE, "done", fin)
                  /\ owed' = Settled(AfterFlush(owed, m), out1)
                  /\ UNCHANGED sent
             ELSE \* the user entry, then onUserFinalText (App.tsx:53-59) -> sendTextTurn
                  /\ transcripts' = Append(transcripts, Entry("user", userFinal, h.mid))
                  /\ currentInputTranscriptionRef' = Cleared(in1)
                  /\ currentOutputTranscriptionRef' = out1
                  /\ IF sessionRef # NULL
                       THEN /\ sent' = sent \cup {ClientContent(sessionRef, userFinal, "userFinal")}
                            /\ tasks' = Append(rest, Handler("userFinal", h, 0, NULL, fin))
                            /\ last' = Step(op, h, TRUE, FALSE, "awaits onUserFinalText", fin)
                            /\ owed' = AfterFlush(owed, m)
                       ELSE IF sessionPromiseRef = NULL
                       THEN \* `await null`, then 'No live session' lands in the catch
                            /\ tasks' = rest
                            /\ last' = Step(op, h, TRUE, FALSE, "threw", fin)
                            /\ owed' = Owes(AfterFlush(owed, m), out1)
                            /\ UNCHANGED sent
                       ELSE /\ tasks' = Append(rest, Handler("userFinal", h, 0,
                                                             sessionPromiseRef, fin))
                            /\ last' = Step(op, h, TRUE, FALSE, "awaits onUserFinalText", fin)
                            /\ owed' = AfterFlush(owed, m)
                            /\ UNCHANGED sent

\* the first part from index i on that carries inline audio data, 0 when there is none
NextAudio(parts, i) ==
    LET js == {j \in i..Len(parts) : parts[j] # NoAudio}
    IN  IF js = {} THEN 0 ELSE CHOOSE j \in js : \A k \in js : j <= k

\* src/hooks/useLiveGemini.ts:191-200  the loop over the parts from part i on, up to the
\* next `await decodeAudioData`; then the rest of the handler
audioLoop(op, h, rest, i, cur, act, srcs, ch) ==
    LET j == NextAudio(h.msg.parts, i)
    IN  IF j = 0
          THEN tail(op, h, rest, cur, act, srcs, ch)
          ELSE /\ nextStartTimeRef' = CursorAt(cur, clock[h.ctx])
               /\ audioSourcesRef' = act
               /\ sources' = srcs
               /\ chain' = ch
               /\ IF h.msg.parts[j] = Malformed
                    THEN \* base64ToArrayBuffer throws: the catch ends the handler
                         /\ tasks' = rest
                         /\ last' = Step(op, h, FALSE, FALSE, "threw", NoTurn)
                    ELSE /\ tasks' = Append(rest, Handler("decode", h, j, NULL, NoTurn))
                         /\ last' = Step(op, h, FALSE, FALSE, "awaits decodeAudioData", NoTurn)
               /\ UNCHANGED <<currentInputTranscriptionRef, currentOutputTranscriptionRef,
                              transcripts, sent, shown, heard, carried, owed>>

\* ------------------------------------------------------ tool calls
\* a function call of toolCall.functionCalls, and a message that carries calls
Call(id, name) == [id |-> id, name |-> name]

ToolMsg(calls) ==
    [calls |-> calls, parts |-> <<>>, interrupted |-> FALSE,
     outputTranscription |-> <<>>, inputTranscription |-> <<>>, turnComplete |-> FALSE]

\* src/hooks/useLiveGemini.ts:72-78  what /api/retrieve answers when it answers
Retrieved == [context |-> "chunks", sources |-> <<"doc">>]

\* a retrieveContextTool without its try/catch: the failure propagates to the caller
Thrown == [threw |-> TRUE]

\* src/hooks/useLiveGemini.ts:79-82  what retrieveContextTool returns when fetch
\* rejects or the status is not OK
RetrieveFailed == [context |-> "Error retrieving context.", sources |-> <<>>]

\* src/hooks/useLiveGemini.ts:78  an answer of /api/retrieve without a sources field
RetrievedBare == [context |-> "chunks"]

\* the outcomes of the fetch: answered with sources, answered without, failed
FetchOutcomes == {"ok", "bare", "failed"}

\* src/hooks/useLiveGemini.ts:69-83  retrieveContextTool, given the outcome of fetch
retrieveContextTool(fetch) ==
    IF fetch = "ok" THEN Retrieved
    ELSE IF fetch = "bare" THEN RetrievedBare
    ELSE RetrieveFailed

\* an onSources call, as the UI sees it (the sources) and as the model tags it (the
\* message and the call it belongs to)
Cited(turn, fc, srcs) == [turn |-> turn, id |-> fc.id, name |-> fc.name, sources |-> srcs]

\* a handler that keeps the citations to itself
SourcesUnreported(log, turn, fc, result) == log

\* src/hooks/useLiveGemini.ts:164-166  if (onSources && result.sources) onSources(...)
onSources(log, turn, fc, result) ==
    IF "sources" \in DOMAIN result
      THEN Append(log, Cited(turn, fc, result.sources))
      ELSE log

\* src/hooks/useLiveGemini.ts:168-174, 177-181  the response pushed for a call
ResultResponse(fc, result) ==
    [id |-> fc.id, name |-> fc.name, response |-> [result |-> result]]

\* an error response that loses the id of its call
ErrorWithoutId(fc) ==
    [id |-> NULL, name |-> fc.name, response |-> [error |-> <<"Unknown tool: ", fc.name>>]]

ErrorResponse(fc) ==
    [id |-> fc.id, name |-> fc.name, response |-> [error |-> <<"Unknown tool: ", fc.name>>]]

\* src/hooks/useLiveGemini.ts:186  s.sendToolResponse({functionResponses})
ToolResponse(s, turn, rs) ==
    [kind |-> "toolResponse", sess |-> s, turn |-> turn, functionResponses |-> rs]

\* the message as it is sent, with the number of onSources calls made before it
Sent(msg, ui) == msg @@ [seen |-> Len(ui)]

\* a handler suspended in the tool path: at `await sessionPromiseRef.current`
\* (pc "toolSession") or at `await retrieveContextTool` for call i (pc "fetch");
\* s is the session it holds, rs the responses pushed so far
ToolTask(pc, h, i, wait, s, rs) ==
    [kind |-> "onmessage", pc |-> pc, sid |-> h.sid, mid |-> h.mid, ctx |-> h.ctx,
     msg |-> h.msg, i |-> i, wait |-> wait, fin |-> NoTurn, s |-> s, rs |-> rs]

\* what a step of the tool path did, for `last`: fetch is the outcome of the fetch
\* the step resumed from ("none" when it did not)
ToolStep(op, h, outcome, fetch) ==
    Step(op, h, FALSE, FALSE, outcome, NoTurn) @@ [fetch |-> fetch]

ToolOps == {"onmessage", "tool session resumed", "fetched"}

\* a loop that retrieves for every call, whatever its name
NextCall(calls, i) == IF i <= Len(calls) THEN i ELSE 0

\* the first call from index i on that is for retrieve_context, 0 when there is none
NextRetrieve(calls, i) ==
    LET js == {j \in i..Len(calls) : calls[j].name = "retrieve_context"}
    IN  IF js = {} THEN 0 ELSE CHOOSE j \in js : \A k \in js : j <= k

\* src/hooks/useLiveGemini.ts:157-187  the loop over the calls from call i on, up to the
\* next `await retrieveContextTool`; after the last call the one response message.
\* ui: the onSources calls made so far
toolLoop(op, h, rest, i, s, rs, fetch, ui) ==
    LET calls == h.msg.calls
        j     == NextRetrieve(calls, i)
        upto  == IF j = 0 THEN Len(calls) ELSE j - 1
        rs1   == rs \o [k \in 1..(upto - i + 1) |-> ErrorResponse(calls[i + k - 1])]
    IN  IF j = 0
          THEN /\ sent' = sent \cup {Sent(ToolResponse(s, h.mid, rs1), ui)}
               /\ tasks' = rest
               /\ last' = ToolStep(op, h, "responded", fetch)
          ELSE /\ tasks' = Append(rest, ToolTask("fetch", h, j, NULL, s, rs1))
               /\ last' = ToolStep(op, h, "awaits retrieveContextTool", fetch)
               /\ UNCHANGED sent

\* src/hooks/useLiveGemini.ts:148-153  a message with function calls: the session the
\* responses will go to
toolCall(h) ==
    /\ IF sessionRef # NULL
         THEN toolLoop("onmessage", h, tasks, 1, sessionRef, <<>>, "none", shown)
         ELSE IF sessionPromiseRef = NULL
         THEN \* `await null`, then `if (!s) return`
              /\ last' = ToolStep("onmessage", h, "no session", "none")
              /\ UNCHANGED <<tasks, sent>>
         ELSE /\ tasks' = Append(tasks, ToolTask("toolSession", h, 0, sessionPromiseRef,
                                                 NULL, <<>>))
              /\ last' = ToolStep("onmessage", h, "awaits session", "none")
              /\ UNCHANGED sent
    /\ UNCHANGED shown

\* a dispatch that takes the tool path only for a message that carries nothing else
OnlyFunctionCalls(m) ==
    /\ m.calls # <<>>
    /\ m.parts = <<>> /\ ~m.interrupted /\ ~m.turnComplete
    /\ m.outputTranscription = <<>> /\ m.inputTranscription = <<>>

\* src/hooks/useLiveGemini.ts:149-150  toolCall?.functionCalls?.length
HasFunctionCalls(m) == m.calls # <<>>

\* what the tool path leaves alone
playbackVars == <<nextStartTimeRef, audioSourcesRef, sources, chain>>
transcriptVars == <<currentInputTranscriptionRef, currentOutputTranscriptionRef,
                    transcripts, heard>>

\* src/hooks/useLiveGemini.ts:142-250  onmessage of session n with message m, up to its
\* first await
onmessage(n, m, maxM) ==
    /\ ws[n] = "open"
    /\ promise[n] = "resolved"
    /\ EventLoopFree(tasks)
    /\ nMsgs < maxM
    /\ nMsgs' = nMsgs + 1
    /\ LET h == [sid |-> n, mid |-> nMsgs + 1, ctx |-> outputAudioContextRef, msg |-> m]
       IN  IF outputAudioContextRef = NULL
             THEN /\ last' = [op |-> "ignored", tool |-> m.calls # <<>>]
                  /\ UNCHANGED <<nextStartTimeRef, audioSourcesRef, sources, tasks, chain, heard,
                                 shown, carried, owed,
                                 currentInputTranscriptionRef,
                                 currentOutputTranscriptionRef, transcripts, sent>>
             ELSE IF HasFunctionCalls(m)
             THEN /\ toolCall(h)
                  /\ UNCHANGED <<playbackVars, transcriptVars, carried, owed>>
             ELSE audioLoop("onmessage", h, tasks, 1, nextStartTimeRef, audioSourcesRef,
                            sources, chain)
    /\ handlerState
    /\ UNCHANGED <<apiKey, frame, mounted, inputAudioContextRef, outputAudioContextRef,
                   inputSourceRef, processorRef, sessionPromiseRef, sessionRef,
                   media, inCtx, outCtx, clock, capture, ws, promise>>

\* src/hooks/useLiveGemini.ts:202-209  a buffer source started at the cursor
Source(ctx, start, dur, after, at) ==
    [ctx |-> ctx, start |-> start, dur |-> dur, state |-> "scheduled",
     after |-> after, at |-> at]

End(src) == src.start + src.dur

\* src/hooks/useLiveGemini.ts:200-210  the handler resumed after `await decodeAudioData`:
\* the source is created, started at the cursor and added to the active set, the cursor
\* advances by the buffer's duration; then the loop goes on
decoded(i) ==
    /\ i \in DOMAIN tasks
    /\ tasks[i].kind = "onmessage"
    /\ tasks[i].pc = "decode"
    /\ EventLoopFree(RemoveAt(tasks, i))
    /\ LET h    == tasks[i]
           dur  == h.msg.parts[h.i]
           src  == Source(h.ctx, nextStartTimeRef, dur, chain, clock[h.ctx])
           srcs == Append(sources, src)
       IN  audioLoop("decoded", h, RemoveAt(tasks, i), h.i + 1, nextStartTimeRef + dur,
                     audioSourcesRef \cup {Len(srcs)}, srcs, End(src))
    /\ handlerState
    /\ UNCHANGED <<apiKey, frame, mounted, inputAudioContextRef, outputAudioContextRef,
                   inputSourceRef, processorRef, sessionPromiseRef, sessionRef,
                   media, inCtx, outCtx, clock, capture, ws, promise, nMsgs>>

\* src/hooks/useLiveGemini.ts:237-250, 59-66, App.tsx:53-59  the handler resumed after
\* `await onUserFinalText`: the text turn was sent, or is sent now that the awaited
\* session promise resolved, and the model half follows; a rejected promise throws
\* into the catch
userFinalResumed(i) ==
    /\ i \in DOMAIN tasks
    /\ tasks[i].kind = "onmessage"
    /\ tasks[i].pc = "userFinal"
    /\ LET h == tasks[i]
       IN  /\ h.wait # NULL => promise[h.wait] # "pending"
           /\ tasks' = RemoveAt(tasks, i)
           /\ IF h.wait # NULL /\ promise[h.wait] = "rejected"
                THEN /\ last' = Step("userFinal resumed", h, FALSE, FALSE, "threw", h.fin)
                     /\ owed' = Owes(owed, currentOutputTranscriptionRef)
                     /\ currentOutputTranscriptionRef' =
                            Unfinished(currentOutputTranscriptionRef)
                     /\ UNCHANGED <<transcripts, sent>>
                ELSE /\ sent' = IF h.wait = NULL THEN sent
                                ELSE sent \cup {ClientContent(h.wait, h.fin.user, "userFinal")}
                     /\ modelFinal(h, currentOutputTranscriptionRef)
                     /\ owed' = Settled(owed, currentOutputTranscriptionRef)
                     /\ last' = Step("userFinal resumed", h, FALSE, TRUE, "done", h.fin)
    /\ handlerState
    /\ UNCHANGED <<apiKey, frame, carried, mounted, inputAudioContextRef, outputAudioContextRef,
                   inputSourceRef, processorRef, nextStartTimeRef, audioSourcesRef,
                   sessionPromiseRef, sessionRef, currentInputTranscriptionRef,
                   media, inCtx, outCtx, clock, capture, ws, promise, sources,
                   nMsgs, shown, heard, chain>>

\* src/hooks/useLiveGemini.ts:152-157  the tool path resumed after `await
\* sessionPromiseRef.current`: a rejected promise throws into the catch
toolSessionResumed(i) ==
    /\ i \in DOMAIN tasks
    /\ tasks[i].kind = "onmessage"
    /\ tasks[i].pc = "toolSession"
    /\ promise[tasks[i].wait] # "pending"
    /\ LET h == tasks[i]
       IN  IF promise[h.wait] = "rejected"
             THEN /\ tasks' = RemoveAt(tasks, i)
                  /\ last' = ToolStep("tool session resumed", h, "threw", "none")
                  /\ UNCHANGED sent
             ELSE toolLoop("tool session resumed", h, RemoveAt(tasks, i), 1, h.wait, <<>>,
                           "none", shown)
    /\ handlerState
    /\ UNCHANGED <<apiKey, frame, carried, owed, mounted, refVars, media, inCtx, outCtx, clock, capture,
                   ws, promise, sources, chain, transcripts, nMsgs, shown, heard>>

\* src/hooks/useLiveGemini.ts:162-174, 69-83  the tool path resumed after `await
\* retrieveContextTool`: fetch answered or failed; the sources go to the UI, the
\* response is pushed and the loop goes on
fetched(i, fetch) ==
    /\ i \in DOMAIN tasks
    /\ tasks[i].kind = "onmessage"
    /\ tasks[i].pc = "fetch"
    /\ LET h      == tasks[i]
           fc     == h.msg.calls[h.i]
           result == retrieveContextTool(fetch)
           ui     == onSources(shown, h.mid, fc, result)
       IN  IF result = Thrown
             THEN /\ tasks' = RemoveAt(tasks, i)
                  /\ last' = ToolStep("fetched", h, "threw", fetch)
                  /\ UNCHANGED <<sent, shown>>
             ELSE /\ shown' = ui
                  /\ toolLoop("fetched", h, RemoveAt(tasks, i), h.i + 1, h.s,
                              Append(h.rs, ResultResponse(fc, result)), fetch, ui)
    /\ handlerState
    /\ UNCHANGED <<apiKey, frame, carried, owed, mounted, refVars, media, inCtx, outCtx, clock, capture,
                   ws, promise, sources, chain, transcripts, nMsgs, heard>>

\* src/hooks/useLiveGemini.ts:205  the 'ended' listener of source k: playback reached the
\* end of its buffer
ended(k) ==
    /\ k \in DOMAIN sources
    /\ sources[k].state = "scheduled"
    /\ outCtx[sources[k].ctx] = "running"
    /\ clock[sources[k].ctx] >= End(sources[k])
    /\ sources' = [sources EXCEPT ![k] = [state |-> "ended"]]
    /\ audioSourcesRef' = audioSourcesRef \ {k}
    /\ last' = [op |-> "ended", id |-> k]
    /\ UNCHANGED <<apiKey, frame, carried, owed, mounted, stateVars, inputAudioContextRef, outputAudioContextRef,
                   inputSourceRef, processorRef, nextStartTimeRef, sessionPromiseRef,
                   sessionRef, currentInputTranscriptionRef, currentOutputTranscriptionRef,
                   media, inCtx, outCtx, clock, capture, ws, promise, tasks, outVars, chain>>

Lifecycle(maxN) ==
    \/ connect(maxN)
    \/ Disconnect
    \/ Unmount
    \/ \E n \in Ids :
         \/ getUserMediaRejected(n)
         \/ inputContextThrows(n)
         \/ outputContextThrows(n)
         \/ connectResumed(n)
         \/ onopen(n)
         \/ sessionResolved(n)
         \/ sessionRejected(n)
         \/ onclose(n)
         \/ onerror(n)

\* -------------------------------------------------------- the PCM codec
\* A float sample is k / Grid, held as the integer k; Grid is a power of two, as
\* the denominator of every float is.  Samples beyond +-Grid are out of [-1, 1].
Grid == 2 ^ GridBits

Samples == (-(Grid + Over))..(Grid + Over)

Frames == UNION {[1..n -> Samples] : n \in 1..MaxFrame}

\* a conversion that does not clamp
Unclamped(x) == x

\* src/vite.config.ts:43  Math.max(-1, Math.min(1, float32[i]))
Clamp(x) == IF x > Grid THEN Grid ELSE IF x < -Grid THEN -Grid ELSE x

\* src/vite.config.ts:44  a store into an Int16Array: the value a / b is truncated
\* toward zero and then taken modulo 2^16 into -32768..32767
Trunc(a, b) == IF a >= 0 THEN a \div b ELSE -((-a) \div b)

ToInt16(n) == ((n + 32768) % 65536) - 32768

SymmetricScale(s) == 32768

\* src/vite.config.ts:44  s < 0 ? s * 0x8000 : s * 0x7FFF
Scale(s) == IF s < 0 THEN 32768 ELSE 32767

\* src/vite.config.ts:40-47
float32ToInt16(float32) ==
    [i \in DOMAIN float32 |->
        LET s == Clamp(float32[i])
        IN  ToInt16(Trunc(s * Scale(s), Grid))]

\* src/vite.config.ts:50-57  s < 0 ? s / 0x8000 : s / 0x7FFF.  The quotient is kept
\* as the exact fraction num / den: the rounding to 24 significant bits of the
\* Float32Array store (a relative 2^-25 at most) is left out
int16ToFloat32(int16) ==
    [i \in DOMAIN int16 |->
        LET s == int16[i]
        IN  IF s < 0 THEN [num |-> s, den |-> 32768] ELSE [num |-> s, den |-> 32767]]

\* src/vite.config.ts:95-104  decodeAudioData, one channel: channelData[i] =
\* dataInt16[i] / 32768.0, as the fraction num / den
decodeAudioData(dataInt16) ==
    [i \in DOMAIN dataInt16 |-> [num |-> dataInt16[i], den |-> 32768]]

\* a captured frame is converted to 16-bit PCM
Quantize ==
    /\ frame.stage = "float32"
    /\ frame' = [frame EXCEPT !.stage = "int16", !.int16 = float32ToInt16(frame.float32)]
    /\ UNCHANGED <<apiKey, mounted, stateVars, refVars, envVars, outVars, carried, owed, chain, last>>

\* the 16-bit PCM frame is converted back
Reconstruct ==
    /\ frame.stage = "int16"
    /\ frame' = [frame EXCEPT !.stage = "back", !.back = int16ToFloat32(frame.int16)]
    /\ UNCHANGED <<apiKey, mounted, stateVars, refVars, envVars, outVars, carried, owed, chain, last>>

\* src/hooks/useLiveGemini.ts:199-200  an inbound 16-bit PCM frame is decoded into the
\* buffer that is played
Decode ==
    /\ frame.stage = "back"
    /\ frame' = [frame EXCEPT !.stage = "decoded", !.buffer = decodeAudioData(frame.int16)]
    /\ UNCHANGED <<apiKey, mounted, stateVars, refVars, envVars, outVars, carried, owed, chain, last>>

\* ------------------------------------------------------- specifications
Resumed(maxTasks) ==
    \E i \in 1..maxTasks :
         \/ decoded(i)
         \/ userFinalResumed(i)
         \/ toolSessionResumed(i)

\* Spec: the session life cycle.  Every interleaving of connect, disconnect, unmount,
\* sendTextTurn and the callbacks of up to MaxConnects sessions (a session the engine
\* has torn down is never closed by it, so its callbacks still run), with up to
\* MaxLifeMsgs inbound messages: an audio chunk, a whole spoken turn, audio data that
\* does not decode, a call of an unknown tool.
LifecycleMsgs ==
    { Msg(<<1>>, FALSE, <<>>, <<>>, FALSE),
      Msg(<<>>, FALSE, <<"x">>, <<"a">>, TRUE),
      Msg(<<>>, FALSE, <<>>, <<"a">>, TRUE),
      Msg(<<Malformed>>, FALSE, <<>>, <<>>, FALSE),
      ToolMsg(<<Call(1, "unknown_tool")>>) }

Next ==
    \/ Lifecycle(MaxConnects)
    \/ sendTextTurn(<<"t">>)
    \/ \E i \in 1..(MaxLifeMsgs + 1) : sendTextTurnResumed(i)
    \/ Resumed(MaxLifeMsgs + 1)
    \/ \E n \in Ids, m \in LifecycleMsgs : onmessage(n, m, MaxLifeMsgs)

Spec == Init /\ [][Next]_vars

\* SpecTools: the tool-call path within one session.  Batches of one and two calls,
\* recognized and not; the retrieval answers or fails; disconnect, close and error
\* arrive at any point, also while a retrieval is in flight.
ToolMsgs ==
    { ToolMsg(<<Call(1, "retrieve_context")>>),
      ToolMsg(<<Call(1, "retrieve_context"), Call(2, "unknown_tool")>>),
      ToolMsg(<<Call(1, "unknown_tool"), Call(2, "retrieve_context")>>),
      ToolMsg(<<Call(1, "retrieve_context"), Call(2, "retrieve_context")>>) }

NextTools ==
    \/ Lifecycle(1)
    \/ \E i \in 1..MaxToolMsgs, fetch \in FetchOutcomes : fetched(i, fetch)
    \/ \E n \in Ids, m \in ToolMsgs : onmessage(n, m, MaxToolMsgs)

SpecTools == Init /\ [][NextTools]_vars

\* SpecPlayback: the playback scheduler within one session.  Audio chunks of one or
\* two parts, interruptions alone and in a message that also carries audio, a part
\* without audio data; the output clock advances and sources play to their end.
PlaybackMsgs ==
    { Msg(<<2, 1>>, FALSE, <<>>, <<>>, FALSE),
      Msg(<<NoAudio, 1>>, FALSE, <<>>, <<>>, FALSE),
      Msg(<<>>, TRUE, <<>>, <<>>, FALSE),
      Msg(<<1>>, TRUE, <<>>, <<>>, FALSE) }

NextPlayback ==
    \/ Lifecycle(1)
    \/ \E n \in Ids : Tick(n)
    \/ \E k \in 1..(2 * MaxAudioMsgs) : ended(k)
    \/ \E i \in 1..MaxAudioMsgs : decoded(i)
    \/ \E n \in Ids, m \in PlaybackMsgs : onmessage(n, m, MaxAudioMsgs)

SpecPlayback == Init /\ [][NextPlayback]_vars

\* SpecTranscript: the transcript assembler within one session.  User deltas "a", "b"
\* and " ", model deltas "x" and " ", interruptions (alone and with a model delta),
\* turn completion (alone and with a user delta).
TranscriptMsgs ==
    { Msg(<<>>, FALSE, <<>>, <<"a">>, FALSE),
      Msg(<<>>, FALSE, <<>>, <<"b">>, FALSE),
      Msg(<<>>, FALSE, <<>>, <<" ">>, FALSE),
      Msg(<<>>, FALSE, <<"x">>, <<>>, FALSE),
      Msg(<<>>, FALSE, <<" ">>, <<>>, FALSE),
      Msg(<<>>, TRUE, <<>>, <<>>, FALSE),
      Msg(<<>>, TRUE, <<"x">>, <<>>, FALSE),
      Msg(<<>>, FALSE, <<>>, <<>>, TRUE),
      Msg(<<>>, FALSE, <<>>, <<"a">>, TRUE) }

NextTranscript ==
    \/ Lifecycle(1)
    \/ \E i \in 1..MaxMsgs : userFinalResumed(i)
    \/ \E n \in Ids, m \in TranscriptMsgs : onmessage(n, m, MaxMsgs)

SpecTranscript == Init /\ [][NextTranscript]_vars

\* SpecBusy: one session in which a retrieval is in flight while audio arrives and
\* the microphone is captured.
BusyMsgs ==
    { ToolMsg(<<Call(1, "retrieve_context")>>),
      Msg(<<1>>, FALSE, <<>>, <<>>, FALSE) }

NextBusy ==
    \/ Lifecycle(1)
    \/ \E c \in Processors : onaudioprocess(c)
    \/ \E i \in 1..(MaxBusyMsgs + 1) :
         \/ decoded(i)
         \/ \E fetch \in FetchOutcomes : fetched(i, fetch)
    \/ \E n \in Ids, m \in BusyMsgs : onmessage(n, m, MaxBusyMsgs)

SpecBusy == Init /\ [][NextBusy]_vars

\* The codec alone: every frame of at most MaxFrame samples is converted to int16
\* and back.
InitCodec ==
    /\ Constructed
    /\ frame \in {[NoFrame EXCEPT !.stage = "float32", !.float32 = f] : f \in Frames}

NextCodec == Quantize \/ Reconstruct

SpecCodec == InitCodec /\ [][NextCodec]_vars

\* The two reverse conversions side by side: every frame of at most MaxFrame 16-bit
\* samples, taken from both ends of the int16 range and from around zero, is
\* converted by int16ToFloat32 and by decodeAudioData.
Pcm == (-32768..(-32768 + Near)) \cup ((-Near)..Near) \cup ((32767 - Near)..32767)

PcmFrames == UNION {[1..n -> Pcm] : n \in 1..MaxFrame}

InitDecode ==
    /\ Constructed
    /\ frame \in {[NoFrame EXCEPT !.stage = "int16", !.int16 = f] : f \in PcmFrames}

NextDecode == Reconstruct \/ Decode

SpecDecode == InitDecode /\ [][NextDecode]_vars

\* SpecMixed: messages that carry function calls together with server content.  A
\* plain message with an audio chunk and both deltas, then a call of retrieve_context
\* or of an unknown tool in a message that also has an audio part, deltas, the
\* interruption flag and turn-complete.
WithCalls(m, calls) == [m EXCEPT !.calls = calls]

MixedMsgs ==
    { Msg(<<1>>, FALSE, <<"x">>, <<"a">>, FALSE),
      WithCalls(Msg(<<1>>, TRUE, <<"y">>, <<"b">>, TRUE), <<Call(1, "retrieve_context")>>),
      WithCalls(Msg(<<>>, TRUE, <<"y">>, <<"b">>, TRUE), <<Call(1, "unknown_tool")>>) }

NextMixed ==
    \/ Lifecycle(1)
    \/ \E i \in 1..MaxMixedMsgs :
         \/ decoded(i)
         \/ \E fetch \in FetchOutcomes : fetched(i, fetch)
    \/ \E n \in Ids, m \in MixedMsgs : onmessage(n, m, MaxMixedMsgs)

SpecMixed == Init /\ [][NextMixed]_vars

\* SpecCarry: transcript text across a reconnect.  Two sessions one after the other;
\* a message with a user and a model delta, an interruption, and a turn-complete
\* with further deltas, in any order and in either session, with disconnect() and
\* connect() in between.
CarryMsgs ==
    { Msg(<<>>, FALSE, <<"x">>, <<"a">>, FALSE),
      Msg(<<>>, TRUE, <<>>, <<>>, FALSE),
      Msg(<<>>, FALSE, <<"y">>, <<"b">>, TRUE) }

NextCarry ==
    \/ connect(MaxConnects)
    \/ Disconnect
    \/ \E n \in Ids :
         \/ connectResumed(n)
         \/ onopen(n)
         \/ sessionResolved(n)
    \/ \E i \in 1..MaxCarryMsgs : userFinalResumed(i)
    \/ \E n \in Ids, m \in CarryMsgs : onmessage(n, m, MaxCarryMsgs)

SpecCarry == Init /\ [][NextCarry]_vars

\* SpecFail: turn completion whose user-final side effect fails.  Two sessions; the
\* first is left open by disconnect() and keeps delivering, the handshake of the
\* second may be rejected, so that sendTextTurn awaits a rejected promise.  A
\* turn-complete with text of both speakers, an interruption, a bare turn-complete.
FailMsgs ==
    { Msg(<<>>, FALSE, <<"x">>, <<"a">>, TRUE),
      Msg(<<>>, TRUE, <<>>, <<>>, FALSE),
      Msg(<<>>, FALSE, <<>>, <<>>, TRUE) }

NextFail ==
    \/ connect(MaxConnects)
    \/ Disconnect
    \/ \E n \in Ids :
         \/ connectResumed(n)
         \/ onopen(n)
         \/ sessionResolved(n)
         \/ sessionRejected(n)
    \/ \E i \in 1..MaxFailMsgs : userFinalResumed(i)
    \/ \E n \in Ids, m \in FailMsgs : onmessage(n, m, MaxFailMsgs)

SpecFail == Init /\ [][NextFail]_vars

\* SpecLive: the life cycle of one session under fair scheduling.  What the hook
\* awaits settles: the getUserMedia promise resolves or rejects, and a socket that
\* is connecting opens, fails or closes; a session whose socket opened resolves its
\* promise.  What the user does (connect, disconnect, unmount) and what an open
\* socket does later are not forced.
PermissionSettles(n) ==
    \/ connectResumed(n)
    \/ getUserMediaRejected(n)
    \/ inputContextThrows(n)
    \/ outputContextThrows(n)

HandshakeSettles(n) ==
    /\ ws[n] = "connecting"
    /\ onopen(n) \/ sessionRejected(n) \/ onerror(n) \/ onclose(n)

NextLive == Lifecycle(1)

SpecLive ==
    /\ Init
    /\ [][NextLive]_vars
    /\ \A n \in Ids : /\ WF_vars(PermissionSettles(n))
                      /\ WF_vars(HandshakeSettles(n))
                      /\ WF_vars(sessionResolved(n))

\* ================================================== the session life cycle
\* what disconnect() reads or writes, and what the hook has emitted
engineVars == <<connectionState, refVars, inCtx, outCtx, sources, chain, tasks,
                transcripts, sent>>

\* C1: disconnect() is idempotent and total.  It can be called in every reachable
\* state of a mounted hook (it has no failing path), every step that runs it leaves
\* connectionState = DISCONNECTED, and a teardown that directly follows a teardown
\* changes no part of the engine state.
C1_DisconnectIdempotent ==
    /\ [](mounted => ENABLED Disconnect)
    /\ [][last'.op \in TeardownOps =>
            /\ connectionState' = DISCONNECTED
            /\ last'.again => UNCHANGED engineVars]_vars

\* a second disconnect() in a row, after a session had been set up
C1_Witness ==
    /\ last.op = "disconnect"
    /\ last.again
    /\ \E n \in Ids : outCtx[n] = "closed" /\ ws[n] = "open"

\* a disconnect() when connect() was never called
C1_WitnessNeverConnected ==
    /\ last.op = "disconnect"
    /\ \A n \in Ids : media[n] = "none"

\* C2 (as claimed): a sendTextTurn(text) called while connectionState is DISCONNECTED
\* fails with 'No live session' and hands nothing to a session.
C2_NoSessionWhenDisconnected ==
    (last.op \in {"sendTextTurn", "sendTextTurn resumed"} /\ last.callState = DISCONNECTED)
        => last.result = "No live session"

\* C3: connect() with an empty apiKey fails at once.  With the credential missing the
\* state is DISCONNECTED in every reachable state (never CONNECTING), no microphone
\* stream is requested, no audio context created, no session opened, and a connect()
\* leaves the configuration error message.
C3_MissingKeyFailsFast ==
    apiKey = "" =>
        /\ connectionState = DISCONNECTED
        /\ \A n \in Ids : /\ media[n] = "none"
                          /\ inCtx[n] = "none" /\ outCtx[n] = "none"
                          /\ ws[n] = "none" /\ promise[n] = "none"
        /\ last.op = "connect" => error = "API Key is missing"

\* connect() was called without a credential
C3_Witness ==
    /\ apiKey = ""
    /\ last.op = "connect"
    /\ last.guard = "missing key"

\* C4 (as claimed): the transport-error callback leaves connectionState = ERROR.
C4_TransportErrorEndsInError ==
    last.op = "onerror" => connectionState = ERROR

\* C5: every exit path (disconnect(), onclose, onerror, unmount) ends in the same
\* post-state: both audio context refs null, the active source set empty, sessionRef
\* and sessionPromiseRef null, connectionState DISCONNECTED or ERROR.
C5_ExitPathsConverge ==
    last.op \in TeardownOps =>
        /\ inputAudioContextRef = NULL
        /\ outputAudioContextRef = NULL
        /\ audioSourcesRef = {}
        /\ sessionRef = NULL
        /\ sessionPromiseRef = NULL
        /\ connectionState \in {DISCONNECTED, ERROR}

\* the transport closed a session that was up: its contexts are closed, its handle
\* had been stored
C5_Witness ==
    /\ last.op = "onclose"
    /\ \E n \in Ids : /\ promise[n] = "resolved"
                      /\ ws[n] = "closed"
                      /\ inCtx[n] = "closed" /\ outCtx[n] = "closed"

\* ====================================================== playback scheduling
\* the sources still scheduled that follow another chunk: `after` is the end (start
\* plus duration) of the chunk scheduled before it, with no interruption, teardown or
\* connect in between; `at` is the device clock when the source was started
Followers == {k \in DOMAIN sources : sources[k].state = "scheduled" /\ sources[k].after # 0}

Flushed(l) == l.op \in {"onmessage", "decoded"} /\ l.tail /\ l.msg.interrupted

\* C7: processing an interruption, with any number of active sources, stops every
\* active source (those of the message itself included), leaves the active set empty
\* and sets the cursor to the output device's current time; a second interruption
\* right after the first leaves the same result.
C7_InterruptionFlush ==
    [][Flushed(last') =>
         /\ \A k \in DOMAIN sources' :
                (k \in audioSourcesRef \/ k \notin DOMAIN sources)
                    => sources'[k].state = "stopped"
         /\ audioSourcesRef' = {}
         /\ nextStartTimeRef' = clock'[last'.ctx]
         /\ (Flushed(last) /\ last.ctx = last'.ctx)
                => /\ UNCHANGED <<audioSourcesRef, nextStartTimeRef>>
                   /\ \A k \in DOMAIN sources : sources'[k] = sources[k]]_vars

\* an interruption that found sources playing, on a context still running whose
\* clock has advanced
C7_Witness ==
    /\ Flushed(last)
    /\ outCtx[last.ctx] = "running"
    /\ clock[last.ctx] > 0
    /\ \E k \in DOMAIN sources : sources[k].state = "stopped"

\* ===================================================== transcript assembly
\* the handler of a turn-complete message has finished: it ran to its end, or threw
\* into the catch of lines 251-254 after it had come to `if (turnComplete)`
TurnHandled(l) ==
    /\ l.op \in HandlerOps
    /\ l.msg.turnComplete
    /\ l.tail \/ l.op = "userFinal resumed"
    /\ l.outcome \in {"done", "threw"}

EntriesOf(turn, who) ==
    {i \in DOMAIN transcripts : transcripts[i].turn = turn /\ transcripts[i].sender = who}

\* C8 (as claimed): when a turn-complete signal has been handled, each speaker whose
\* buffer, trimmed, was non-empty at the signal has exactly one entry of that turn,
\* with exactly that text, and a speaker whose trimmed buffer was empty has none.
C8_OneEntryPerSpeaker ==
    TurnHandled(last) =>
        \A who \in {"user", "model"} :
            IF last.fin[who] # <<>>
              THEN /\ Cardinality(EntriesOf(last.mid, who)) = 1
                   /\ \A i \in EntriesOf(last.mid, who) : transcripts[i].text = last.fin[who]
              ELSE EntriesOf(last.mid, who) = {}

\* C9 (as claimed): when a turn-complete signal has been handled, both transcript
\* buffers are empty.
C9_BuffersEmptyAfterTurn ==
    TurnHandled(last) =>
        /\ currentInputTranscriptionRef = <<>>
        /\ currentOutputTranscriptionRef = <<>>

\* the steps that ran the user half of turn completion (lines 227-238)
UserHalf(l) == l.op \in {"onmessage", "decoded"} /\ l.tail /\ l.msg.turnComplete

\* C10: an interruption clears the model buffer (what the message itself carries is
\* appended after that) and leaves the user buffer as it was; the user buffer always
\* holds exactly the user deltas received since the last user entry, in order, and
\* the user entry of a turn-complete is that text, trimmed.
C10_InterruptionKeepsUserText ==
    [][/\ (Flushed(last') /\ ~last'.msg.turnComplete) =>
              /\ currentOutputTranscriptionRef' = last'.msg.outputTranscription
              /\ currentInputTranscriptionRef' =
                     currentInputTranscriptionRef \o last'.msg.inputTranscription
       /\ currentInputTranscriptionRef' = heard'
       /\ UserHalf(last') =>
              /\ last'.fin.user = Trim(heard \o last'.msg.inputTranscription)
              /\ (last'.fin.user # <<>>) =>
                     transcripts' = Append(transcripts,
                                           Entry("user", last'.fin.user, last'.mid))]_vars

\* an interruption arrived while the user buffer held "ab"
C10_Witness ==
    /\ Flushed(last)
    /\ currentInputTranscriptionRef = <<"a", "b">>
    /\ currentOutputTranscriptionRef = <<>>
    /\ nMsgs = MaxMsgs

\* ============================================================== tool calls
\* the tool-response messages handed to a session, and those of one inbound message
ToolResponses(msgs) == {r \in msgs : r.kind = "toolResponse"}

ResponsesTo(turn) == {r \in ToolResponses(sent) : r.turn = turn}

\* the step that sent the response message of a batch
Responded(l) == l.op \in ToolOps /\ l.outcome = "responded"

\* rs answers the calls one by one: the i-th response carries the id and the name of
\* the i-th call, a result for retrieve_context and an error naming the tool otherwise
Answers(rs, calls) ==
    /\ Len(rs) = Len(calls)
    /\ \A i \in DOMAIN calls :
          /\ rs[i].id = calls[i].id
          /\ rs[i].name = calls[i].name
          /\ IF calls[i].name = "retrieve_context"
               THEN DOMAIN rs[i].response = {"result"}
               ELSE rs[i].response = [error |-> <<"Unknown tool: ", calls[i].name>>]

FetchTask(ts, turn) ==
    CHOOSE t \in DOMAIN ts : ts[t].mid = turn /\ ts[t].pc = "fetch"

\* the responses the handler of message `turn` has pushed: those of the message it
\* sent, or those its suspended task holds
Pushed(ts, msgs, turn) ==
    IF \E r \in ToolResponses(msgs) : r.turn = turn
      THEN (CHOOSE r \in ToolResponses(msgs) : r.turn = turn).functionResponses
      ELSE IF \E t \in DOMAIN ts : ts[t].mid = turn /\ ts[t].pc = "fetch"
      THEN ts[FetchTask(ts, turn)].rs
      ELSE <<>>

\* C12: a failure of the external retrieval (fetch rejects or answers a non-OK
\* status) does not tear the session down.  The step that resumes from the failure
\* leaves connectionState, the error message, the audio contexts, the refs and the
\* transport as they are, and pushes for the call its one response, carrying the
\* degraded 'Error retrieving context.' payload under the call's id and name.
C12_RetrievalFailureAbsorbed ==
    [][(last'.op = "fetched" /\ last'.fetch = "failed") =>
           LET i  == tasks[FetchTask(tasks, last'.mid)].i
               rs == Pushed(tasks', sent', last'.mid)
           IN  /\ UNCHANGED <<connectionState, error, refVars, inCtx, outCtx, ws, promise>>
               /\ Len(rs) >= i
               /\ rs[i] = ResultResponse(last'.msg.calls[i], RetrieveFailed)
               /\ last'.outcome \in {"responded", "awaits retrieveContextTool"}]_vars

\* a retrieval failed in a connected session: the response went out with the degraded
\* payload, the session is still connected and no error is shown
C12_Witness ==
    /\ last.op = "fetched"
    /\ last.fetch = "failed"
    /\ Responded(last)
    /\ connectionState = CONNECTED
    /\ error = NoError
    /\ \E r \in ResponsesTo(last.mid) :
          r.functionResponses[1] = ResultResponse(Call(1, "retrieve_context"), RetrieveFailed)

\* C13 (as claimed): a tool response is never sent after teardown.  When a handler
\* sends the response message of a batch, the output context it accepted the batch
\* under is still the engine's: no teardown has run since.
C13_NoResponseAfterTeardown ==
    Responded(last) => outputAudioContextRef = last.ctx

\* ============================================================ bad messages
\* the handler steps, of any path
AnyHandlerOps == HandlerOps \cup ToolOps

OpenSessions == {n \in Ids : ws[n] \in {"connecting", "open"}}

\* C15 (as claimed): at most one transport session is open at any time.
C15_SingleSession ==
    Cardinality(OpenSessions) <= 1

\* C16 (as claimed): CONNECTED is entered only from CONNECTING, and CONNECTING only
\* from DISCONNECTED or ERROR.
C16_StateMachine ==
    [][/\ (connectionState' = CONNECTED /\ connectionState # CONNECTED)
              => connectionState = CONNECTING
       /\ (connectionState' = CONNECTING /\ connectionState # CONNECTING)
              => connectionState \in {DISCONNECTED, ERROR}]_vars

\* C17 (as claimed): when connect() has ended in its catch (state ERROR, an error
\* message set), no audio context is open, no capture node is attached and no
\* playback source is active.
C17_NothingDanglingAfterFailure ==
    last.op = "connect failed" =>
        /\ connectionState = ERROR
        /\ error # NoError
        /\ \A n \in Ids : inCtx[n] # "running" /\ outCtx[n] # "running"
        /\ \A c \in capture : inCtx[c.ctx] # "running"
        /\ \A k \in DOMAIN sources : sources[k].state # "scheduled"

\* ================================================================ PCM codec
Abs(a) == IF a < 0 THEN -a ELSE a

\* |k / Grid - y.num / y.den| < 1 / 32767.  With d = |k * y.den - y.num * Grid| this
\* is d * 32767 < Grid * y.den, and for integers that is
\* d <= (Grid * y.den - 1) \div 32767.
WithinOneStep(k, y) == Abs(k * y.den - y.num * Grid) <= (Grid * y.den - 1) \div 32767

Lossy(k, y) == k * y.den # y.num * Grid

UserFirst(turn) ==
    \A i \in EntriesOf(turn, "model"), j \in EntriesOf(turn, "user") : j < i

\* C19 (as claimed): when the handler of a turn-complete that found both buffers
\* non-empty has finished, both entries of the turn are emitted, the user entry
\* first; the model entry of such a turn is emitted by the step that follows
\* `await onUserFinalText`; and no model entry precedes the user entry of its turn.
C19_UserEntryThenModelEntry ==
    /\ (TurnHandled(last) /\ last.fin.user # <<>> /\ last.fin.model # <<>>) =>
          /\ EntriesOf(last.mid, "user") # {}
          /\ EntriesOf(last.mid, "model") # {}
    /\ (last.op \in HandlerOps /\ last.modelFinal /\ last.fin.user # <<>>) =>
          last.op = "userFinal resumed"
    /\ \A i \in DOMAIN transcripts : UserFirst(transcripts[i].turn)

\* the order alone: whatever is emitted for a turn is emitted user entry first, and
\* the model half of a turn with a user entry runs only after `await onUserFinalText`
UserBeforeModel ==
    /\ (last.op \in HandlerOps /\ last.modelFinal /\ last.fin.user # <<>>) =>
          last.op = "userFinal resumed"
    /\ \A i \in DOMAIN transcripts : UserFirst(transcripts[i].turn)

\* ============================================================ session handle
\* C20 (as claimed): the session handle exists only while the state is CONNECTED or
\* CONNECTING: in DISCONNECTED and in ERROR sessionRef and sessionPromiseRef are null.
C20_HandleOnlyWhileLive ==
    connectionState \in {DISCONNECTED, ERROR} =>
        /\ sessionRef = NULL
        /\ sessionPromiseRef = NULL

\* ================================================= retrieval and the audio paths
Fetching == \E i \in DOMAIN tasks : tasks[i].kind = "onmessage" /\ tasks[i].pc = "fetch"

AudioChunk == Msg(<<1>>, FALSE, <<>>, <<>>, FALSE)

CitingResponses(tr) ==
    {k \in DOMAIN tr.functionResponses :
        LET r == tr.functionResponses[k]
        IN  /\ r.name = "retrieve_context"
            /\ "result" \in DOMAIN r.response
            /\ "sources" \in DOMAIN r.response.result}

\* C22: for every tool-response message sent, and every response in it that carries
\* a retrieval result with sources, those sources were handed to onSources, for
\* that call, before the message was sent.
C22_SourcesBeforeResponse ==
    \A tr \in ToolResponses(sent) :
        \A k \in CitingResponses(tr) :
            LET r == tr.functionResponses[k]
            IN  \E j \in 1..tr.seen :
                    /\ j <= Len(shown)
                    /\ shown[j] = Cited(tr.turn, r, r.response.result.sources)

\* the response to a batch of two recognized calls has been sent; both retrievals
\* answered with citations, and both onSources calls came before the send
C22_Witness ==
    \E tr \in ToolResponses(sent) :
        /\ Len(tr.functionResponses) = 2
        /\ CitingResponses(tr) = {1, 2}
        /\ \A k \in {1, 2} : tr.functionResponses[k].response.result = Retrieved
        /\ tr.seen >= 2

\* ============================================================= unknown tools
Recognized(name) == name = "retrieve_context"

\* C23: a call of an unknown tool makes no retrieval request and reports no sources:
\* no handler is suspended at `await retrieveContextTool` for such a call and no
\* onSources call belongs to one; its response, under the call's id and name, is
\* the error payload that names the tool.
C23_UnknownToolNotInvoked ==
    /\ \A i \in DOMAIN tasks :
          (tasks[i].kind = "onmessage" /\ tasks[i].pc = "fetch")
              => Recognized(tasks[i].msg.calls[tasks[i].i].name)
    /\ \A j \in DOMAIN shown : Recognized(shown[j].name)
    /\ \A tr \in ToolResponses(sent) :
          \A k \in DOMAIN tr.functionResponses :
              LET r == tr.functionResponses[k]
              IN  ~Recognized(r.name) =>
                      r.response = [error |-> <<"Unknown tool: ", r.name>>]

\* the response to a batch of an unknown call followed by a recognized one has been
\* sent: the error payload first, and the one onSources call is the recognized call's
C23_Witness ==
    /\ Responded(last)
    /\ \E tr \in ResponsesTo(last.mid) :
          /\ Len(tr.functionResponses) = 2
          /\ tr.functionResponses[1] = ErrorResponse(Call(1, "unknown_tool"))
          /\ tr.functionResponses[2].name = "retrieve_context"
    /\ \E j \in DOMAIN shown : shown[j].turn = last.mid /\ shown[j].id = 2
    /\ \A j \in DOMAIN shown : shown[j].turn = last.mid => shown[j].id = 2

\* =========================================================== playback cursor
\* the output device's current time, as a teardown finds it (0: no device)
DeviceTime == IF outputAudioContextRef = NULL THEN 0 ELSE clock[outputAudioContextRef]

\* C24 (as claimed): the cursor never decreases, except at a flush: an interruption
\* and a teardown both set it to the output device's current time.
C24_CursorMonotoneOrNow ==
    [][IF Flushed(last')
         THEN nextStartTimeRef' = clock'[last'.ctx]
         ELSE IF last'.op \in TeardownOps
         THEN nextStartTimeRef' = DeviceTime
         ELSE last'.op \in AnyHandlerOps => nextStartTimeRef' >= nextStartTimeRef]_vars

\* what holds instead: the cursor never decreases, except that an interruption sets
\* it to the output device's current time, a teardown sets it to 0, and connect()
\* sets it to the current time of the output device it has created
CursorMonotoneOrReset ==
    [][IF Flushed(last')
         THEN nextStartTimeRef' = clock'[last'.ctx]
         ELSE IF last'.op \in TeardownOps
         THEN nextStartTimeRef' = 0
         ELSE IF last'.op = "connect resumed"
         THEN nextStartTimeRef' = clock'[last'.id]
         ELSE nextStartTimeRef' >= nextStartTimeRef]_vars

\* ========================================================== capture pipeline
\* the step handed a microphone frame to session l.sess
FrameSent(l) ==
    \/ l.op = "onaudioprocess" /\ l.outcome = "sent"
    \/ l.op = "session resolved" /\ l.frames

SentTo(l) == IF l.op = "onaudioprocess" THEN l.sess ELSE l.id

\* C25 (as claimed): disconnect() stops the capture pipeline.  When it has run, no
\* microphone stream is live, the capture processor is detached (the ref is null
\* and no processor sits on a running input context) and no frame is waiting to be
\* sent; and a frame is only ever sent to the session the engine holds, so none is
\* sent between a disconnect() and the next session.
C25_DisconnectStopsCapture ==
    /\ last.op \in TeardownOps =>
          /\ \A n \in Ids : media[n] # "live"
          /\ processorRef = NULL
          /\ \A c \in capture : inCtx[c.ctx] # "running"
          /\ \A i \in DOMAIN tasks : tasks[i].kind # "frame"
    /\ FrameSent(last) => SentTo(last) \in {sessionRef, sessionPromiseRef}

\* ======================================================= reverse conversions
\* the fractions a and b are the same number
SameValue(a, b) == a.num * b.den = b.num * a.den

\* C26 (as claimed): for every 16-bit sample, decodeAudioData gives the value
\* int16ToFloat32 gives: the sample over 32768 when negative, over 32767 otherwise.
C26_PlaybackDecodeIsReverseCodec ==
    frame.stage = "decoded" =>
        \A i \in DOMAIN frame.int16 :
            /\ SameValue(frame.buffer[i], frame.back[i])
            /\ SameValue(frame.buffer[i],
                         [num |-> frame.int16[i],
                          den |-> IF frame.int16[i] < 0 THEN 32768 ELSE 32767])

\* what holds instead: the two agree on the negative samples and on 0, and
\* decodeAudioData divides every sample by 32768
DecodeDividesBy32768 ==
    frame.stage = "decoded" =>
        \A i \in DOMAIN frame.int16 :
            /\ frame.buffer[i] = [num |-> frame.int16[i], den |-> 32768]
            /\ frame.int16[i] <= 0 => SameValue(frame.buffer[i], frame.back[i])
            /\ frame.int16[i] > 0 => ~SameValue(frame.buffer[i], frame.back[i])

\* ================================================================ liveness
\* C27 (as claimed): once connect() has set the state to CONNECTING the state
\* eventually leaves CONNECTING, and a handshake that is rejected before the socket
\* opens ends in ERROR with an error message.
C27_ConnectingSettles ==
    /\ (connectionState = CONNECTING) ~> (connectionState # CONNECTING)
    /\ (last.op = "session rejected") ~> (connectionState = ERROR /\ error # NoError)

\* what holds instead: while getUserMedia is pending the attempt settles, and once
\* ai.live.connect is called every outcome the socket reports through a callback
\* leaves CONNECTING
PermissionPhaseSettles ==
    \A n \in Ids : (media[n] = "pending") ~> (media[n] # "pending")

\* ============================================================== saturation
\* a / b rounded to the nearest integer, a half upwards (Math.round)
Round(a, b) == (2 * a + b) \div (2 * b)

Quantized == frame.stage \in {"int16", "back"} /\ frame.float32 # <<>>

\* the range and the fixed points of float32ToInt16
Saturates(x, y) ==
    /\ y \in -32768..32767
    /\ x <= -Grid => y = -32768
    /\ x >= Grid => y = 32767
    /\ x = 0 => y = 0

\* C28 (as claimed): float32ToInt16 takes every sample, also outside [-1, 1], into
\* -32768..32767, a sample <= -1 to -32768, a sample >= 1 to 32767 and 0 to 0, and
\* the result is the clamped sample times 32768 (negative) or 32767 (non-negative)
\* rounded to the nearest integer.
C28_SaturatingRound ==
    Quantized =>
        \A i \in DOMAIN frame.float32 :
            LET x == frame.float32[i]
                s == IF x > Grid THEN Grid ELSE IF x < -Grid THEN -Grid ELSE x
            IN  /\ Saturates(x, frame.int16[i])
                /\ frame.int16[i] = Round(s * (IF s < 0 THEN 32768 ELSE 32767), Grid)

\* C28 (amended): the same, with the scaled sample truncated toward zero.
C28_SaturatingTruncation ==
    Quantized =>
        \A i \in DOMAIN frame.float32 :
            LET x == frame.float32[i]
                s == IF x > Grid THEN Grid ELSE IF x < -Grid THEN -Grid ELSE x
            IN  /\ Saturates(x, frame.int16[i])
                /\ frame.int16[i] = Trunc(s * (IF s < 0 THEN 32768 ELSE 32767), Grid)

\* a converted frame holds a sample above 1 and a sample of (0, 1) whose scaled
\* value is not an integer
C28_Witness ==
    /\ Quantized
    /\ \E i, j \in DOMAIN frame.float32 :
          /\ frame.float32[i] > Grid
          /\ frame.float32[j] > 0 /\ frame.float32[j] < Grid
          /\ Trunc(frame.float32[j] * 32767, Grid) # Round(frame.float32[j] * 32767, Grid)

\* ==================================================== calls with server content
\* C29: every step of the handler of a message that carries at least one function
\* call (its first step, the step resumed when the session handle arrives, the steps
\* resumed when a retrieval answers) leaves the playback cursor, the active set and
\* its sources, both transcript buffers and the transcript as they are, whatever else
\* the message carries.
C29_CallsHandledAsToolCallOnly ==
    [][(last'.op \in AnyHandlerOps /\ last'.msg.calls # <<>>) =>
           /\ last'.op \in ToolOps
           /\ "fetch" \in DOMAIN last'
           /\ UNCHANGED <<playbackVars, transcriptVars>>]_vars

\* the response to a call went out for a message that also carried an audio part,
\* deltas, the interruption flag and turn-complete, while a source was scheduled and
\* both buffers held text: all of it is still there
C29_Witness ==
    /\ last.op = "fetched"
    /\ last.outcome = "responded"
    /\ last.msg.parts # <<>> /\ last.msg.interrupted /\ last.msg.turnComplete
    /\ last.msg.outputTranscription # <<>> /\ last.msg.inputTranscription # <<>>
    /\ audioSourcesRef # {}
    /\ currentInputTranscriptionRef # <<>>
    /\ currentOutputTranscriptionRef # <<>>
    /\ transcripts = <<>>

\* ======================================================= what CONNECTED means
\* C30 (as claimed): whenever connectionState is CONNECTED, both audio context refs
\* hold an open context and the capture processor is attached to the input context
\* and running.
C30_ConnectedMeansAudioUp ==
    connectionState = CONNECTED =>
        /\ inputAudioContextRef # NULL
        /\ inCtx[inputAudioContextRef] = "running"
        /\ outputAudioContextRef # NULL
        /\ outCtx[outputAudioContextRef] = "running"
        /\ processorRef # NULL
        /\ \E c \in capture : c.ctx = inputAudioContextRef

\* ================================================= buffers across a reconnect
\* the transcript buffer of a speaker
BufferOf(who) ==
    IF who = "user" THEN currentInputTranscriptionRef ELSE currentOutputTranscriptionRef

StartsWith(text, prefix) ==
    Len(prefix) <= Len(text) /\ SubSeq(text, 1, Len(prefix)) = prefix

\* the entries of a speaker emitted since connect() last created a session
LaterEntries(who) ==
    {i \in DOMAIN transcripts : i > carried.len /\ transcripts[i].sender = who}

\* the text a speaker's buffer held when the session was created is still at the
\* head of the buffer, or it is at the head of the first entry of that speaker
\* emitted since
CarriedOver(who) ==
    LET later == LaterEntries(who)
        first == CHOOSE i \in later : \A j \in later : i <= j
    IN  IF later = {}
          THEN StartsWith(BufferOf(who), carried[who])
          ELSE StartsWith(transcripts[first].text, Trim(carried[who]))

\* the steps of disconnect() and of connect()
ReconnectOps == TeardownOps \cup {"connect", "connect resumed"}

BuffersKept ==
    [][last'.op \in ReconnectOps =>
           UNCHANGED <<currentInputTranscriptionRef, currentOutputTranscriptionRef>>]_vars

\* C31 (as claimed): disconnect() and connect() leave both transcript buffers as
\* they are, and the text a buffer held when the next session was created is
\* prepended to the first entry of that speaker finalized afterwards.
C31_BuffersCarriedOver ==
    /\ BuffersKept
    /\ [](CarriedOver("user") /\ CarriedOver("model"))

\* C31 (amended): the same, except that the model text is lost when an interruption
\* is handled in the new session before the model entry is finalized.
C31_BuffersCarriedUnlessFlushed ==
    /\ BuffersKept
    /\ [](CarriedOver("user") /\ (carried.flushed \/ CarriedOver("model")))

\* after a disconnect() and a second connect(), with text of both speakers left in
\* the buffers, a turn completed: both entries begin with the text from before
C31_Witness ==
    /\ inCtx[1] = "closed"
    /\ outputAudioContextRef = 2
    /\ carried.user # <<>> /\ carried.model # <<>> /\ ~carried.flushed
    /\ LaterEntries("user") # {} /\ LaterEntries("model") # {}
    /\ \E i \in LaterEntries("user") : Len(transcripts[i].text) > Len(carried.user)
    /\ currentInputTranscriptionRef = <<>>
    /\ currentOutputTranscriptionRef = <<>>

\* ==================================================== nothing starts after a flush
\* the step ran disconnect() or the interruption block
FlushStep(l) == l.op \in TeardownOps \/ Flushed(l)

DroppedWhileDisconnected ==
    [][(outputAudioContextRef = NULL /\ nMsgs' # nMsgs)
           => /\ last'.op = "ignored"
              /\ UNCHANGED <<playbackVars, transcriptVars, tasks, sent>>]_vars

\* ============================================== a failed user-final side effect
\* the step ended the handler of a turn-complete because onUserFinalText threw
UserFinalFailed(l) ==
    l.op \in HandlerOps /\ l.outcome = "threw" /\ l.msg.turnComplete /\ l.fin.user # <<>>

\* the step emitted a model entry that begins with the text left behind
TakesUp ==
    /\ Len(transcripts') > Len(transcripts)
    /\ transcripts'[Len(transcripts')].sender = "model"
    /\ StartsWith(transcripts'[Len(transcripts')].text, Trim(owed.text))

\* the user entry is emitted and the user buffer cleared before onUserFinalText is
\* awaited; when it throws, the turn has its user entry and no model entry, the
\* model buffer is as it was and nothing of the session is torn down
FailureLeaves ==
    /\ [](UserFinalFailed(last) =>
             /\ \E i \in EntriesOf(last.mid, "user") : transcripts[i].text = last.fin.user
             /\ EntriesOf(last.mid, "model") = {})
    /\ [][/\ last'.op \in HandlerOps /\ last'.outcome = "awaits onUserFinalText"
               => /\ transcripts' = Append(transcripts,
                                           Entry("user", last'.fin.user, last'.mid))
                  /\ currentInputTranscriptionRef' = <<>>
          /\ UserFinalFailed(last')
               => /\ last'.op = "userFinal resumed"
                       => UNCHANGED currentOutputTranscriptionRef
                  /\ UNCHANGED <<transcripts, connectionState, error, inCtx, outCtx, ws,
                                 promise, inputAudioContextRef, outputAudioContextRef,
                                 sessionRef, sessionPromiseRef>>]_vars

================================================================================
